---- MODULE Spec2Model ----
(***************************************************************************)
(* Model of pretrain/pointcontrast/lib/ddp_data_loaders.py:                *)
(*   default_collate_pair_fn   (batch collation)                           *)
(*   get_matching_indices      (radius correspondence search)              *)
(*   ScanNetMatchPairDataset.__getitem__ (one paired sample)               *)
(* Python lists and numpy arrays are sequences (1-based here, 0-based      *)
(* index VALUES are kept as in the code).                                  *)
(***************************************************************************)
EXTENDS Integers, Sequences, FiniteSets, TLC

VARIABLES
  list_data,      \* the list of PairSamples handed to default_collate_pair_fn
  batch,          \* the dict returned by the last collate call ("none" before)
  first_batch,    \* history: the dict returned by the first collate call
  orig_data,      \* history: list_data as it was before any collate call
  ncollate,       \* history: number of collate calls made on list_data
  \* --- get_matching_indices, called on its own
  m_in,           \* its arguments: source, target, trans, radius, K, tree order
  m_results,      \* history: what each radius query returned, per source point
  match_inds,     \* the list it returned
  m_pc,           \* "start" before the call, "done" after it
  \* --- a ScanNetMatchPairDataset instance and the process it lives in
  random_scale,   \* self.random_scale
  random_rotation, \* self.random_rotation
  self_matching_search_voxel_size,  \* self.matching_search_voxel_size
  np_random,      \* state of the process-wide numpy generator
  pc,             \* "idle", or "returned" while a __getitem__ result is in hand
  item,           \* the tuple __getitem__ returned
  call,           \* history: the locals of that __getitem__ call
  draws           \* history: <<candidate array, selection>> of the first call that subsampled

cvars == <<list_data, batch, first_batch, orig_data, ncollate>>
mvars == <<m_in, m_results, match_inds, m_pc>>
ivars == <<random_scale, random_rotation, self_matching_search_voxel_size,
           np_random, pc, item, call, draws>>
vars == <<cvars, mvars, ivars>>

(* ----------------------------- bounds --------------------------------- *)
MaxBatch == 2          \* longest list_data
MaxCollate == 2        \* collate calls on one list
MaxTarget == 3         \* most target points of a get_matching_indices call
MaxPts == 4            \* most points of a loaded fragment
\* line 233 sets sample_pts = 40000; scaled down to the clouds modelled here
sample_pts == 2

Counts == {1, 2}       \* per-cloud point counts of a collated sample

(* --------------------------- list helpers ------------------------------ *)
RECURSIVE Flatten(_)
Flatten(ss) == IF Len(ss) = 0 THEN <<>> ELSE Head(ss) \o Flatten(Tail(ss))

RECURSIVE SumSeq(_)
SumSeq(s) == IF Len(s) = 0 THEN 0 ELSE Head(s) + SumSeq(Tail(s))

Take(s, n) == SubSeq(s, 1, IF n < Len(s) THEN n ELSE Len(s))

\* sequences over S of length <= n without repetition
RECURSIVE DistinctSeqs(_, _)
DistinctSeqs(S, n) ==
  IF n = 0 THEN {<<>>}
  ELSE {<<>>} \cup UNION {{<<x>> \o t : t \in DistinctSeqs(S \ {x}, n - 1)} : x \in S}

NoRepeat(s) == \A i, j \in 1..Len(s) : i # j => s[i] # s[j]

(* ------------------------ get_matching_indices ------------------------- *)
\* K is None or a natural number
None == 0 - 1
\* if K is not None: idx = idx[:K]
cap_bug(idx, K) == idx
cap(idx, K) == IF K = None THEN idx ELSE Take(idx, K)

\* for j in idx: match_inds.append((i, j))
pairs_of(i, idx) == [n \in 1..Len(idx) |-> <<i, idx[n]>>]

\* results[i+1] is what search_radius_vector_3d returned for source point i
RECURSIVE match_loop(_, _, _, _)
match_loop(results, K, i, acc_inds) ==
  IF i >= Len(results) THEN acc_inds
  ELSE match_loop(results, K, i + 1,
                  acc_inds \o pairs_of(i, cap(results[i + 1], K)))

(* ---------------- geometry: one axis, fixed-point numbers --------------- *)
\* A coordinate v stands for the real number v / Den.  Den is chosen so that
\* every scaling, mean and radius below is an exact integer.
RECURSIVE Fact(_)
Fact(n) == IF n <= 1 THEN 1 ELSE n * Fact(n - 1)
Den == 4 * Fact(MaxPts)
Grid == {0, 1, 3}                 \* raw coordinates, in whole units
Abs(x) == IF x < 0 THEN 0 - x ELSE x
Identity == [R |-> 1, t |-> 0]    \* np.identity(4): rotation block R, translation t

\* source_copy.transform(trans)
transform(points, trans) == [i \in 1..Len(points) |-> trans.R * points[i] + trans.t]

\* pcd_tree.search_radius_vector_3d(point, radius): the indices of the target
\* points within the radius, in the order the tree yields them (order is that
\* order over all target indices)
search_radius_vector_3d(target, order, point, radius) ==
  SelectSeq(order, LAMBDA j : Abs(target[j + 1] - point) <= radius)

radius_results(source, target, trans, search_voxel_size, order) ==
  LET source_copy == transform(source, trans)
  IN [i \in 1..Len(source) |->
        search_radius_vector_3d(target, order, source_copy[i], search_voxel_size)]

get_matching_indices(source, target, trans, search_voxel_size, K, order) ==
  match_loop(radius_results(source, target, trans, search_voxel_size, order),
             K, 0, <<>>)

Ascending(n) == [i \in 1..n |-> i - 1]
Descending(n) == [i \in 1..n |-> n - i]
TreeOrders(n) == {Ascending(n), Descending(n)}

\* point clouds of lo..hi points on the grid
Clouds(lo, hi) == UNION {[1..n -> {g * Den : g \in Grid}] : n \in lo..hi}

(* ------------------------ default_collate_pair_fn ---------------------- *)
\* A Python int inside a list is the 1-tuple <<v>>; a tuple (a, b) is <<a, b>>.
\* matching_inds[batch_id].extend([0, 0])
extend_sentinel(m) == m \o << <<0>>, <<0>> >>

sentinel_guard(m) == IF Len(m) = 0 THEN extend_sentinel(m) ELSE m

\* np.array(m): 2-D (M, 2) for a list of pairs, 1-D (L,) for a list of ints
Is1D(m) == Len(m) > 0 /\ \A i \in 1..Len(m) : Len(m[i]) = 1

\* np.array(m) + curr_start_inds, curr_start_inds of shape (1, 2):
\* a 1-D array of length 2 broadcasts to the single row (m0 + A, m1 + B)
np_add_bug(m, curr) ==
  IF Is1D(m) THEN << <<m[1][1], m[2][1]>> >>
  ELSE [i \in 1..Len(m) |-> <<m[i][1] + curr[1], m[i][2] + curr[2]>>]
np_add(m, curr) ==
  IF Is1D(m) THEN << <<m[1][1] + curr[1], m[2][1] + curr[2]>> >>
  ELSE [i \in 1..Len(m) |-> <<m[i][1] + curr[1], m[i][2] + curr[2]>>]

\* what the sample's own list holds after line 86: the sum is a new array
kept_inds_bug(m, curr) == IF Is1D(m) THEN m ELSE np_add(m, curr)
kept_inds(m, curr) == m

\* torch.cat((torch.ones(N, 1).int() * batch_id, coords), 1)
tag_coords_bug(batch_id, coords) == [i \in 1..Len(coords) |-> <<0>> \o coords[i]]
tag_coords(batch_id, coords) ==
  [i \in 1..Len(coords) |-> <<batch_id>> \o coords[i]]

\* curr_start_inds[0, 0] += N0 ; curr_start_inds[0, 1] += N1
move_head_bug(curr, N0, N1) == <<curr[1] + N0, curr[2] + N0>>
move_head_swap(curr, N0, N1) == <<curr[1] + N1, curr[2] + N0>>
move_head(curr, N0, N1) == <<curr[1] + N0, curr[2] + N1>>

EmptyAcc ==
  [xyz_batch0 |-> <<>>, coords_batch0 |-> <<>>, feats_batch0 |-> <<>>,
   xyz_batch1 |-> <<>>, coords_batch1 |-> <<>>, feats_batch1 |-> <<>>,
   matching_inds_batch |-> <<>>, trans_batch |-> <<>>, len_batch |-> <<>>,
   list_data |-> <<>>]

\* one pass of the loop body, lines 63-87, for sample d with its
\* sentinel-guarded list m
collate_step(acc, batch_id, curr_start_inds, d, m) ==
  [xyz_batch0 |-> Append(acc.xyz_batch0, d.xyz0),
   coords_batch0 |-> Append(acc.coords_batch0, tag_coords(batch_id, d.coords0)),
   feats_batch0 |-> Append(acc.feats_batch0, d.feats0),
   xyz_batch1 |-> Append(acc.xyz_batch1, d.xyz1),
   coords_batch1 |-> Append(acc.coords_batch1, tag_coords(batch_id, d.coords1)),
   feats_batch1 |-> Append(acc.feats_batch1, d.feats1),
   matching_inds_batch |->
     Append(acc.matching_inds_batch, np_add(m, curr_start_inds)),
   trans_batch |-> Append(acc.trans_batch, d.trans),
   len_batch |-> Append(acc.len_batch, <<Len(d.coords0), Len(d.coords1)>>),
   list_data |-> Append(acc.list_data,
     [d EXCEPT !.matching_inds = kept_inds(m, curr_start_inds)])]

\* the for loop of lines 61-91; acc holds the per-sample lists built so far
RECURSIVE collate_loop(_, _, _, _)
collate_loop(data, batch_id, curr_start_inds, acc) ==
  IF batch_id >= Len(data) THEN acc
  ELSE collate_loop(data, batch_id + 1,
         move_head(curr_start_inds, Len(data[batch_id + 1].coords0),
                   Len(data[batch_id + 1].coords1)),
         collate_step(acc, batch_id, curr_start_inds, data[batch_id + 1],
                      sentinel_guard(data[batch_id + 1].matching_inds)))

\* lines 93-112: concatenate the lists; with the input list as the loop left it
concatenated(acc) ==
  [ret |->
     [pcd0 |-> Flatten(acc.xyz_batch0),
      pcd1 |-> Flatten(acc.xyz_batch1),
      sinput0_C |-> Flatten(acc.coords_batch0),
      sinput0_F |-> Flatten(acc.feats_batch0),
      sinput1_C |-> Flatten(acc.coords_batch1),
      sinput1_F |-> Flatten(acc.feats_batch1),
      correspondences |-> Flatten(acc.matching_inds_batch),
      T_gt |-> Flatten(acc.trans_batch),
      len_batch |-> acc.len_batch],
   list_data |-> acc.list_data]

default_collate_pair_fn(data) ==
  concatenated(collate_loop(data, 0, <<0, 0>>, EmptyAcc))

(* ------------- the parts of the state a specification leaves out -------- *)
voxel_size == Den                          \* config.data.voxel_size = 1.0
\* config.data.voxel_size * positive_pair_search_voxel_size_multiplier (1.5)
config_matching_search_voxel_size == (voxel_size * 3) \div 2
ScaleDen == 2          \* a scale factor f is held as the numerator f * ScaleDen

NoItem == [xyz_0 |-> <<>>, xyz_1 |-> <<>>, coords0 |-> <<>>, coords1 |-> <<>>,
           feats0 |-> <<>>, feats1 |-> <<>>, matches |-> <<>>, trans |-> Identity]
NoCall == [data0 |-> <<>>, data1 |-> <<>>, scaling |-> FALSE, scale |-> ScaleDen,
           matching_search_voxel_size |-> 0,
           scaled0 |-> <<>>, scaled1 |-> <<>>,
           xyz0 |-> <<>>, xyz1 |-> <<>>, xyz0_ |-> <<>>, xyz1_ |-> <<>>,
           cand0 |-> <<>>, cand1 |-> <<>>, sel0 |-> <<>>, sel1 |-> <<>>,
           pre0 |-> 0, pre1 |-> 0, seen0 |-> FALSE]

CollateIdle ==
  /\ list_data = <<>> /\ orig_data = <<>> /\ batch = "none"
  /\ first_batch = "none" /\ ncollate = 0
MatchIdle ==
  /\ m_in = "none" /\ m_results = <<>> /\ match_inds = <<>> /\ m_pc = "idle"
ItemIdle ==
  /\ random_scale = FALSE /\ random_rotation = FALSE
  /\ self_matching_search_voxel_size = config_matching_search_voxel_size
  /\ np_random = 0 /\ pc = "off" /\ item = NoItem /\ call = NoCall
  /\ draws = {}

(* ------------------- samples handed to the collator -------------------- *)
Identity4 == <<<<1, 0, 0, 0>>, <<0, 1, 0, 0>>, <<0, 0, 1, 0>>, <<0, 0, 0, 1>>>>

\* a sample shaped as __getitem__ returns it: n0 / n1 points, matches from
\* get_matching_indices over some radius-query results
MakeSample(n0, n1, results) ==
  [xyz0 |-> [i \in 1..n0 |-> <<10 * n1 + i, 0, n0>>],
   xyz1 |-> [i \in 1..n1 |-> <<20 * n0 + i, 1, n1>>],
   coords0 |-> [i \in 1..n0 |-> <<n0 - i, n1, 0>>],
   coords1 |-> [i \in 1..n1 |-> <<i - 1, 0, n0>>],
   feats0 |-> [i \in 1..n0 |-> <<10 * n1 + i, 0, n0>>],
   feats1 |-> [i \in 1..n1 |-> <<20 * n0 + i, 1, n1>>],
   matching_inds |-> match_loop(results, None, 0, <<>>),
   trans |-> Identity4]

Samples ==
  UNION {{MakeSample(n0, n1, r) :
            r \in [1..n0 -> DistinctSeqs(0..(n1 - 1), n1)]} :
         n0 \in Counts, n1 \in Counts}

CollateInit ==
  /\ \E n \in 1..MaxBatch : list_data \in [1..n -> Samples]
  /\ orig_data = list_data
  /\ batch = "none"
  /\ first_batch = "none"
  /\ ncollate = 0
  /\ MatchIdle /\ ItemIdle

Collate ==
  /\ ncollate < MaxCollate
  /\ LET r == default_collate_pair_fn(list_data)
     IN /\ batch' = r.ret
        /\ list_data' = r.list_data
        /\ first_batch' = IF ncollate = 0 THEN r.ret ELSE first_batch
  /\ ncollate' = ncollate + 1
  /\ UNCHANGED <<orig_data, mvars, ivars>>

CollateNext == Collate

(* ------------------ collation: expected values, from orig_data --------- *)
NSamples == Len(orig_data)
CountA(k) == Len(orig_data[k].xyz0)
CountB(k) == Len(orig_data[k].xyz1)
OffA(k) == SumSeq([j \in 1..(k - 1) |-> CountA(j)])
OffB(k) == SumSeq([j \in 1..(k - 1) |-> CountB(j)])
RawPairs(k) == orig_data[k].matching_inds
IsEmptySample(k) == Len(RawPairs(k)) = 0
RowCount(k) == IF IsEmptySample(k) THEN 1 ELSE Len(RawPairs(k))
RowStart(k) == SumSeq([j \in 1..(k - 1) |-> RowCount(j)])
Collated == ncollate > 0
\* the rows sample k contributes to batch['correspondences']
CorrBlock(k) ==
  SubSeq(batch.correspondences, RowStart(k) + 1, RowStart(k) + RowCount(k))
CoordBlock0(k) == SubSeq(batch.sinput0_C, OffA(k) + 1, OffA(k) + CountA(k))
CoordBlock1(k) == SubSeq(batch.sinput1_C, OffB(k) + 1, OffB(k) + CountB(k))

\* C1: a sample with a non-empty correspondence set contributes, in order, its
\* raw pairs (a, b) mapped to (a + sum of countA before it, b + sum of countB
\* before it), the two totals kept independently, blocks in sample order.
C1_OffsetsAreIndependentPrefixSums ==
  Collated =>
    /\ Len(batch.correspondences) = SumSeq([k \in 1..NSamples |-> RowCount(k)])
    /\ \A k \in 1..NSamples :
         ~IsEmptySample(k) =>
           CorrBlock(k) = [i \in 1..Len(RawPairs(k)) |->
                             <<RawPairs(k)[i][1] + OffA(k),
                               RawPairs(k)[i][2] + OffB(k)>>]

C1_Witness ==
  /\ Collated
  /\ \E k \in 2..NSamples :
       /\ Len(RawPairs(k)) >= 2
       /\ OffA(k) # OffB(k)
       /\ CorrBlock(k)[2] = <<RawPairs(k)[2][1] + OffA(k), RawPairs(k)[2][2] + OffB(k)>>

\* C2: when every raw pair (a, b) of every sample has a < countA and
\* b < countB, every batch row (A, B) indexes the concatenated arrays, and a
\* row of sample k points into sample k's own segment of pcd0 / pcd1.
RawPairsValid ==
  \A k \in 1..NSamples : \A i \in 1..Len(RawPairs(k)) :
    /\ RawPairs(k)[i][1] \in 0..(CountA(k) - 1)
    /\ RawPairs(k)[i][2] \in 0..(CountB(k) - 1)

C2_RowsIndexOwnSegment ==
  (Collated /\ RawPairsValid) =>
    /\ \A n \in 1..Len(batch.correspondences) :
         /\ batch.correspondences[n][1] \in 0..(Len(batch.pcd0) - 1)
         /\ batch.correspondences[n][2] \in 0..(Len(batch.pcd1) - 1)
    /\ \A k \in 1..NSamples : \A i \in 1..RowCount(k) :
         /\ CorrBlock(k)[i][1] \in OffA(k)..(OffA(k) + CountA(k) - 1)
         /\ CorrBlock(k)[i][2] \in OffB(k)..(OffB(k) + CountB(k) - 1)

C2_Witness ==
  /\ Collated /\ RawPairsValid
  /\ \E k \in 2..NSamples, j \in 1..NSamples :
       /\ IsEmptySample(k)
       /\ ~IsEmptySample(j)
       /\ CountA(1) # CountB(1)
       /\ CorrBlock(j)[1][2] >= OffB(j)

\* C3: a sample with an empty correspondence set contributes exactly one row,
\* (sum of countA before it, sum of countB before it); so every sample
\* contributes a row and the batch has at least as many rows as samples.
C3_EmptySampleGivesOneOffsetRow ==
  Collated =>
    /\ Len(batch.correspondences) = SumSeq([k \in 1..NSamples |-> RowCount(k)])
    /\ \A k \in 1..NSamples :
         IsEmptySample(k) => CorrBlock(k) = << <<OffA(k), OffB(k)>> >>
    /\ Len(batch.correspondences) >= NSamples

C3_Witness ==
  /\ Collated
  /\ \E k \in 2..NSamples :
       /\ IsEmptySample(k)
       /\ OffA(k) > 0 /\ OffB(k) > OffA(k)
       /\ CorrBlock(k) = << <<OffA(k), OffB(k)>> >>

\* C4: len_batch has one (countA, countB) entry per sample; sinput0_C and
\* sinput1_C are consecutive per-sample blocks, block k holding that sample's
\* voxel coordinates unchanged behind the batch tag k; pcd, sinput_C and
\* sinput_F of a stream all have the stream's total point count.
C4_UnbatchByLenBatch ==
  Collated =>
    /\ batch.len_batch = [k \in 1..NSamples |-> <<CountA(k), CountB(k)>>]
    /\ \A k \in 1..NSamples :
         /\ CoordBlock0(k) = [i \in 1..CountA(k) |->
                                <<k - 1>> \o orig_data[k].coords0[i]]
         /\ CoordBlock1(k) = [i \in 1..CountB(k) |->
                                <<k - 1>> \o orig_data[k].coords1[i]]
    /\ Len(batch.pcd0) = OffA(NSamples + 1)
    /\ Len(batch.sinput0_C) = OffA(NSamples + 1)
    /\ Len(batch.sinput0_F) = OffA(NSamples + 1)
    /\ Len(batch.pcd1) = OffB(NSamples + 1)
    /\ Len(batch.sinput1_C) = OffB(NSamples + 1)
    /\ Len(batch.sinput1_F) = OffB(NSamples + 1)

C4_Witness ==
  /\ Collated
  /\ NSamples >= 2
  /\ CountA(1) # CountA(2)
  /\ CountA(2) # CountB(2)
  /\ batch.sinput0_C[OffA(2) + 1][1] = 1
  /\ batch.len_batch[2] = <<CountA(2), CountB(2)>>

\* C10: collating the same list again returns an equal batch, although the
\* first call wrote the sentinel into the empty lists of its input; an
\* originally empty sample contributes one row at its base offset every time.
C10_CollateIsRepeatable ==
  ncollate >= 2 =>
    /\ batch = first_batch
    /\ \A k \in 1..NSamples :
         IsEmptySample(k) => CorrBlock(k) = << <<OffA(k), OffB(k)>> >>

C10_Witness ==
  /\ ncollate >= 2
  /\ \E k \in 2..NSamples, j \in 1..NSamples :
       /\ IsEmptySample(k)
       /\ list_data[k].matching_inds # orig_data[k].matching_inds
       /\ ~IsEmptySample(j)
       /\ batch.correspondences = first_batch.correspondences

(* ------------------- get_matching_indices on its own ------------------- *)
MatchInit ==
  /\ \E src \in Clouds(1, 2), tgt \in Clouds(0, MaxTarget),
        tr \in {Identity, [R |-> 0 - 1, t |-> 2 * Den]},
        rad \in {Den \div 2, (3 * Den) \div 2},
        k \in {None} \cup (0..MaxTarget) :
       \E ord \in TreeOrders(Len(tgt)) :
         m_in = [source |-> src, target |-> tgt, trans |-> tr,
                 search_voxel_size |-> rad, K |-> k, order |-> ord]
  /\ m_results = <<>>
  /\ match_inds = <<>>
  /\ m_pc = "start"
  /\ CollateIdle /\ ItemIdle

Match ==
  /\ m_pc = "start"
  /\ m_results' = radius_results(m_in.source, m_in.target, m_in.trans,
                                 m_in.search_voxel_size, m_in.order)
  /\ match_inds' = get_matching_indices(m_in.source, m_in.target, m_in.trans,
                                        m_in.search_voxel_size, m_in.K, m_in.order)
  /\ m_pc' = "done"
  /\ UNCHANGED <<m_in, cvars, ivars>>

MatchNext == Match

Min2(a, b) == IF a < b THEN a ELSE b
\* the targets paired with source index i, in list order
TargetsOf(i) ==
  LET own == SelectSeq(match_inds, LAMBDA pr : pr[1] = i)
  IN [n \in 1..Len(own) |-> own[n][2]]

\* C8: pairs come in source array order; the pairs of one source point follow
\* the order its radius query returned; a source point with no neighbour gives
\* no pair; under a cap K a source index has at most K pairs, the first K
\* results of its query (all of them when fewer).
C8_PairsFollowQueryOrder ==
  m_pc = "done" =>
    /\ \A n \in 1..(Len(match_inds) - 1) : match_inds[n][1] <= match_inds[n + 1][1]
    /\ \A n \in 1..Len(match_inds) : match_inds[n][1] \in 0..(Len(m_in.source) - 1)
    /\ \A i \in 0..(Len(m_in.source) - 1) :
         LET found == m_results[i + 1]
         IN /\ (Len(found) = 0 => Len(TargetsOf(i)) = 0)
            /\ (m_in.K = None => TargetsOf(i) = found)
            /\ (m_in.K # None =>
                  /\ Len(TargetsOf(i)) <= m_in.K
                  /\ TargetsOf(i) = SubSeq(found, 1, Min2(m_in.K, Len(found))))

C8_Witness ==
  /\ m_pc = "done"
  /\ m_in.K = 1
  /\ m_in.order = Descending(Len(m_in.target))
  /\ Len(m_in.source) = 2
  /\ Len(m_results[1]) = 0
  /\ Len(m_results[2]) >= 2
  /\ TargetsOf(1) = <<m_results[2][1]>>

(* --------------------- ScanNetMatchPairDataset ------------------------- *)
Scales == {1, 4}       \* scale factors 0.5 and 2.0, as numerators over ScaleDen
Rotations == {1, 0 - 1}   \* rotation blocks: the identity, a half turn

\* matching_search_voxel_size *= scale
scale_radius_bug(radius, scale) == radius
scale_radius(radius, scale) == (radius * scale) \div ScaleDen

\* xyz[:,:3] = scale * xyz[:,:3]
scale_points(xyz, scale) == [i \in 1..Len(xyz) |-> (xyz[i] * scale) \div ScaleDen]

\* lines 214-215: both clouds are scaled by the one factor
scale_clouds_bug(xyz0, xyz1, scale) == <<scale_points(xyz0, scale), xyz1>>
scale_clouds(xyz0, xyz1, scale) ==
  <<scale_points(xyz0, scale), scale_points(xyz1, scale)>>

\* sample_random_trans: rotation R about the cloud's mean
sample_random_trans(pcd, R) ==
  [R |-> R, t |-> R * (0 - (SumSeq(pcd) \div Len(pcd)))]

\* pts @ R.T + T
apply_transform(pts, trans) == [i \in 1..Len(pts) |-> pts[i] * trans.R + trans.t]

\* np.linalg.inv of a rigid transform whose rotation block is its own inverse
inv(T) == [R |-> T.R, t |-> 0 - (T.R * T.t)]
matmul(A, B) == [R |-> A.R * B.R, t |-> A.R * B.t + A.t]

\* np.round(v / voxel_size): to the nearest integer, halves to the even one
np_round(v) ==
  LET q == v \div voxel_size
      r == v % voxel_size
  IN IF 2 * r < voxel_size THEN q
     ELSE IF 2 * r > voxel_size THEN q + 1
     ELSE IF q % 2 = 0 THEN q ELSE q + 1

MinOf(s) == CHOOSE m \in {s[i] : i \in 1..Len(s)} : \A i \in 1..Len(s) : m <= s[i]

\* xyz_ -= xyz_.min(0, keepdims=1)
minus_min(xyz_, m) == [i \in 1..Len(xyz_) |-> xyz_[i] - m]
\* lines 228-230: xyz_ = np.round(xyz / voxel_size), then the shift to 0
voxelize(xyz) ==
  minus_min([i \in 1..Len(xyz) |-> np_round(xyz[i])],
            MinOf([i \in 1..Len(xyz) |-> np_round(xyz[i])]))

\* ME.utils.sparse_quantize(xyz_, return_index=True): the index of the first
\* point of every occupied voxel, in array order
sparse_quantize(xyz_) ==
  SelectSeq(Ascending(Len(xyz_)),
            LAMBDA i : \A j \in 0..(i - 1) : xyz_[j + 1] # xyz_[i + 1])

\* arr[sel]
Index(arr, sel) == [n \in 1..Len(sel) |-> arr[sel[n] + 1]]

(* the process-wide generator: a counter that every draw advances *)
RngStates == 0..2
advance(s) == (s + 1) % 3
RECURSIVE advance_by(_, _)
advance_by(s, n) == IF n = 0 THEN s ELSE advance_by(advance(s), n - 1)

\* np.random.seed(42)
reseed_bug(s) == s
reseed(s) == 42 % 3

Remove(a, p) == SubSeq(a, 1, p - 1) \o SubSeq(a, p + 1, Len(a))

\* np.random.choice(a, size, replace=False) from generator state s
RECURSIVE np_random_choice(_, _, _, _)
np_random_choice(s, a, size, out) ==
  IF size = 0 THEN [sel |-> out, rng |-> s]
  ELSE LET p == (s % Len(a)) + 1
       IN np_random_choice(advance(s), Remove(a, p), size - 1, Append(out, a[p]))

\* if len(sel) > sample_pts
needs_subsample_bug(n) == n > sample_pts + 1
needs_subsample(n) == n > sample_pts

\* lines 234-236 / 243-245
subsample(sel, s) ==
  IF needs_subsample(Len(sel))
  THEN np_random_choice(reseed(s), sel, sample_pts, <<>>)
  ELSE [sel |-> sel, rng |-> s]

\* self.transform(coords, feats), a Jitter, once per cloud: each call adds
\* generator noise to feats with probability 0.95 and leaves coords alone;
\* jitters is the number of the two calls that drew noise
Jitter(s, jitters) == advance_by(s, jitters)

\* sample_random_rts: np.random.uniform is drawn once for a scale_range and
\* once for a translation_range
sample_random_rts_rng(s, scale_range, translation_range) ==
  advance_by(s, (IF scale_range THEN 1 ELSE 0) + (IF translation_range THEN 1 ELSE 0))

\* lines 217-225: rotation augmentation of the scaled clouds
rotated(scaling, scale, radius, scaled, T0, T1, self_rotation) ==
  [scaling |-> scaling, scale |-> scale,
   scaled0 |-> scaled[1], scaled1 |-> scaled[2],
   matching_search_voxel_size |-> radius,
   trans |-> IF self_rotation THEN matmul(T1, inv(T0)) ELSE Identity,
   xyz0 |-> IF self_rotation THEN apply_transform(scaled[1], T0) ELSE scaled[1],
   xyz1 |-> IF self_rotation THEN apply_transform(scaled[2], T1) ELSE scaled[2]]

scaled_pair(scaling, scale, radius, scaled, d, self_rotation) ==
  rotated(scaling, scale, radius, scaled,
          sample_random_trans(scaled[1], d.R0),
          sample_random_trans(scaled[2], d.R1), self_rotation)

\* lines 208-225: scale and rotation augmentation; d holds the values the
\* random draws take
augment(data0, data1, d, self_scale, self_rotation, self_msvs) ==
  IF self_scale /\ d.do_scale
  THEN scaled_pair(TRUE, d.scale, scale_radius(self_msvs, d.scale),
                   scale_clouds(data0, data1, d.scale), d, self_rotation)
  ELSE scaled_pair(FALSE, ScaleDen, self_msvs, <<data0, data1>>, d, self_rotation)

\* lines 228-236 (238-245 for the second cloud): voxelize, keep one point per
\* voxel, cap the number of points
quantized(xyz_, cand, sub, s) ==
  [xyz_ |-> xyz_, cand |-> cand, sel |-> sub.sel, pre |-> s, rng |-> sub.rng]
capped(xyz_, cand, s) == quantized(xyz_, cand, subsample(cand, s), s)
deduplicated(xyz_, s) == capped(xyz_, sparse_quantize(xyz_), s)
quantize(xyz, s) == deduplicated(voxelize(xyz), s)

\* lines 257-285: match the two voxelized clouds pcd0, pcd1 and build the tuple
matched(a, q0, q1, d, pcd0, pcd1) ==
  [ret |-> [xyz_0 |-> pcd0, xyz_1 |-> pcd1,
            coords0 |-> Index(q0.xyz_, q0.sel), coords1 |-> Index(q1.xyz_, q1.sel),
            feats0 |-> Index(a.xyz0, q0.sel), feats1 |-> Index(a.xyz1, q1.sel),
            matches |-> get_matching_indices(pcd0, pcd1, a.trans,
                          a.matching_search_voxel_size, None, Ascending(Len(pcd1))),
            trans |-> a.trans],
   np_random |-> Jitter(q1.rng, d.jitters)]

\* lines 248-285 of __getitem__, after augmentation a and the quantizations
\* q0, q1 of the two clouds
getitem(a, q0, q1, d) ==
  matched(a, q0, q1, d, Index(a.xyz0, q0.sel), Index(a.xyz1, q1.sel))

\* the two fragments np.load returns for a dataset index: two clouds of at
\* most MaxPts points together, or one cloud listed as both fragments
LoadedPairs ==
  UNION {Clouds(n, n) \X Clouds(1, MaxPts - n) : n \in 1..(MaxPts - 1)}
    \cup {<<c, c>> : c \in Clouds((MaxPts \div 2) + 1, MaxPts)}

Draws ==
  {[do_scale |-> ds, scale |-> sc, R0 |-> r0, R1 |-> r1, jitters |-> j] :
     ds \in BOOLEAN, sc \in Scales, r0 \in Rotations, r1 \in Rotations,
     j \in 0..2}

\* draws the instance's configuration cannot use are fixed, not enumerated
UsedDraws ==
  {d \in Draws :
     /\ (~random_scale => ~d.do_scale)
     /\ (~d.do_scale => d.scale = 1)
     /\ (~random_rotation => (d.R0 = 1 /\ d.R1 = 1))}

Drawn(cand) == \E p \in draws : p[1] = cand
\* the subsampling steps of one call, as <<candidate array, selection>>
StepsOf(q0, q1) ==
  {<<q.cand, q.sel>> : q \in {x \in {q0, q1} : Len(x.sel) < Len(x.cand)}}

ItemInit ==
  /\ random_scale \in BOOLEAN
  /\ random_rotation \in BOOLEAN
  /\ self_matching_search_voxel_size = config_matching_search_voxel_size
  /\ np_random \in RngStates
  /\ pc = "idle"
  /\ item = NoItem
  /\ call = NoCall
  /\ draws = {}
  /\ CollateIdle /\ MatchIdle

GetItem ==
  /\ pc = "idle"
  /\ \E p \in LoadedPairs, d \in UsedDraws :
     \E a \in {augment(p[1], p[2], d, random_scale, random_rotation,
                       self_matching_search_voxel_size)} :
     \E q0 \in {quantize(a.xyz0, np_random)} :
     \E q1 \in {quantize(a.xyz1, q0.rng)} :
     \E r \in {getitem(a, q0, q1, d)} :
       /\ item' = r.ret
       /\ call' = [data0 |-> p[1], data1 |-> p[2],
                   scaling |-> a.scaling, scale |-> a.scale,
                   matching_search_voxel_size |-> a.matching_search_voxel_size,
                   scaled0 |-> a.scaled0, scaled1 |-> a.scaled1,
                   xyz0 |-> a.xyz0, xyz1 |-> a.xyz1,
                   xyz0_ |-> q0.xyz_, xyz1_ |-> q1.xyz_,
                   cand0 |-> q0.cand, cand1 |-> q1.cand,
                   sel0 |-> q0.sel, sel1 |-> q1.sel,
                   pre0 |-> q0.pre, pre1 |-> q1.pre,
                   seen0 |-> Drawn(q0.cand)]
       /\ np_random' = r.np_random
       /\ draws' = IF draws = {} THEN StepsOf(q0, q1) ELSE draws
  /\ pc' = "returned"
  /\ UNCHANGED <<random_scale, random_rotation, self_matching_search_voxel_size,
                 cvars, mvars>>

\* the loader takes the returned tuple; the instance is ready for the next index
HandOver ==
  /\ pc = "returned"
  /\ pc' = "idle"
  /\ item' = NoItem
  /\ call' = NoCall
  /\ UNCHANGED <<random_scale, random_rotation, self_matching_search_voxel_size,
                 np_random, draws, cvars, mvars>>

\* another user of the process-wide generator runs between two items
SampleRandomRts ==
  /\ pc = "idle"
  /\ \E scale_range \in BOOLEAN, translation_range \in BOOLEAN :
       /\ scale_range \/ translation_range
       /\ np_random' = sample_random_rts_rng(np_random, scale_range, translation_range)
  /\ UNCHANGED <<random_scale, random_rotation, self_matching_search_voxel_size,
                 pc, item, call, draws, cvars, mvars>>

ItemNext == GetItem \/ HandOver \/ SampleRandomRts

Returned == pc = "returned"
Elems(q) == {q[n] : n \in 1..Len(q)}
Subsampled0 == Len(call.sel0) < Len(call.cand0)
Subsampled1 == Len(call.sel1) < Len(call.cand1)

\* the claim's conditions on one cloud: N input points with voxel coordinates
\* voxels, representatives cand, selection sel
SelectionOk(N, voxels, cand, sel) ==
  LET U == Cardinality(Elems(voxels))
  IN /\ Len(sel) = Min2(U, sample_pts)
     /\ NoRepeat(sel)
     /\ \A n \in 1..Len(sel) : sel[n] \in 0..(N - 1)
     /\ \A n, m \in 1..Len(sel) : n # m => voxels[sel[n] + 1] # voxels[sel[m] + 1]
     /\ Len(cand) = U
     /\ (U > sample_pts => Elems(sel) \subseteq Elems(cand))
     /\ (U <= sample_pts => Elems(sel) = Elems(cand))

\* C5: for each cloud with N points and U distinct voxels, the selected index
\* list has min(U, sample_pts) pairwise distinct entries, each < N, no two in
\* one voxel; a subset of the representatives when U > sample_pts, else all.
C5_SelectionIsCappedAndUnique ==
  Returned =>
    /\ SelectionOk(Len(call.data0), call.xyz0_, call.cand0, call.sel0)
    /\ SelectionOk(Len(call.data1), call.xyz1_, call.cand1, call.sel1)

C5_Witness ==
  /\ Returned
  /\ Cardinality(Elems(call.xyz0_)) > sample_pts
  /\ Len(call.sel0) = sample_pts
  /\ Cardinality(Elems(call.xyz0_)) < Len(call.data0)
  /\ Elems(call.sel0) # Elems(Take(call.cand0, sample_pts))

\* the subsampling steps of the call in hand
CallSteps ==
  (IF Subsampled0 THEN {<<call.cand0, call.sel0>>} ELSE {}) \cup
  (IF Subsampled1 THEN {<<call.cand1, call.sel1>>} ELSE {})

\* C6: two subsampling steps that receive the same candidate index array,
\* in one call or in different calls with anything done to the generator in
\* between, return the same selection (same indices, same order).
C6_SubsamplingIgnoresHistory ==
  Returned =>
    \A x \in CallSteps : \A y \in CallSteps \cup draws : x[1] = y[1] => x[2] = y[2]

C6_Witness ==
  /\ Returned
  /\ Subsampled0 /\ Subsampled1
  /\ call.seen0
  /\ call.cand0 = call.cand1
  /\ call.sel0 = call.sel1
  /\ call.pre0 # call.pre1
  /\ call.pre0 # reseed(call.pre0)

SameFragments == call.data0 = call.data1

\* C7: same cloud as both fragments, rotation off (scale on or off): identity
\* relative transform, equal point counts, the self-match (i, i) of every
\* index i in the list, and every pair (i, j) with i < count0 and j < count1.
C7_SelfPairMatchesItself ==
  (Returned /\ SameFragments /\ ~random_rotation) =>
    /\ item.trans = Identity
    /\ Len(item.xyz_0) = Len(item.xyz_1)
    /\ Len(item.matches) > 0
    /\ \A i \in 0..(Len(item.xyz_0) - 1) : <<i, i>> \in Elems(item.matches)
    /\ \A n \in 1..Len(item.matches) :
         /\ item.matches[n][1] \in 0..(Len(item.xyz_0) - 1)
         /\ item.matches[n][2] \in 0..(Len(item.xyz_1) - 1)

C7_Witness ==
  /\ Returned /\ SameFragments /\ ~random_rotation
  /\ call.scaling
  /\ Subsampled0
  /\ random_scale
  /\ <<1, 1>> \in Elems(item.matches)

\* C9: the radius given to the matcher is the configured radius times the one
\* scale factor applied to both clouds in this call (1 when none is drawn), and
\* the instance's matching_search_voxel_size stays at its configured value.
C9_RadiusScalesWithGeometry ==
  /\ self_matching_search_voxel_size = config_matching_search_voxel_size
  /\ Returned =>
       /\ call.matching_search_voxel_size * ScaleDen =
            config_matching_search_voxel_size * call.scale
       /\ (~call.scaling => call.scale = ScaleDen)
       /\ \A i \in 1..Len(call.data0) :
            call.scaled0[i] * ScaleDen = call.data0[i] * call.scale
       /\ \A i \in 1..Len(call.data1) :
            call.scaled1[i] * ScaleDen = call.data1[i] * call.scale

C9_Witness ==
  /\ Returned
  /\ call.seen0
  /\ call.scaling
  /\ call.scale = 4
  /\ call.matching_search_voxel_size = 2 * self_matching_search_voxel_size
  /\ \E i \in 1..Len(call.data0) : call.scaled0[i] > call.data0[i]

(* --------------------------- specifications ---------------------------- *)
\* default_collate_pair_fn on lists of samples
SpecCollate == CollateInit /\ [][CollateNext]_vars

\* get_matching_indices on its arguments
SpecMatch == MatchInit /\ [][MatchNext]_vars

\* a dataset instance serving __getitem__ calls
SpecItem == ItemInit /\ [][ItemNext]_vars

====
